---- MODULE Spec2Model ----
(***************************************************************************)
(* A model of src/rede.py: the sampling loop of monitor_network_traffic    *)
(* and the interface selection of auto_select_interface.                   *)
(*                                                                         *)
(* The host (psutil, the clock, the user at the keyboard) is the           *)
(* environment: every host query draws its answer from a small set.        *)
(* Time is counted in whole seconds.  A Python float is modelled by the    *)
(* exact rational it approximates, kept in lowest terms.                   *)
(***************************************************************************)
EXTENDS Integers, Sequences, FiniteSets, TLC

\* ------------------------------------------------------------------ bounds
MaxDuration == 2
MaxInterval == 3
MaxUnits == 2
MaxLag == 1
MaxIfaces == 3

\* ------------------------------------------------------- program constants
BitsPerByte == 8
Kibi == 1024

\* The number of bytes whose transfer in one second is one Mbit/s.
ByteUnit == (Kibi * Kibi) \div BitsPerByte

\* ------------------------------------------------------------ input sets
Durations == -1 .. MaxDuration
Intervals == -1 .. MaxInterval
\* Values the cumulative bytes-sent counter of the monitored interface may show.
CounterValues == {k * ByteUnit : k \in 0 .. MaxUnits}
\* Values its bytes-received counter may show.
RecvValues == {0, ByteUnit}
\* Sizes of the host's TCP and UDP connection tables, as <<tcp, udp>>.
ConnCounts == {<<0, 0>>, <<2, 1>>}

\* ------------------------------------------------------------- rationals
Abs(x) == IF x < 0 THEN -x ELSE x

RECURSIVE GCD(_, _)
GCD(a, b) == IF b = 0 THEN a ELSE GCD(b, a % b)

\* n / d in lowest terms with a positive denominator (d # 0).
TrueDiv(n, d) ==
    LET g == GCD(Abs(n), Abs(d))
        s == IF d < 0 THEN -1 ELSE 1
    IN  [num |-> s * (n \div g), den |-> s * (d \div g)]

FloatAdd(a, b) ==
    LET g == GCD(a.den, b.den)
        l == (a.den \div g) * b.den
    IN  TrueDiv(a.num * (l \div a.den) + b.num * (l \div b.den), l)

Zero == TrueDiv(0, 1)

\* round(elapsed, 1): the clock counts whole seconds, which one decimal keeps.
Round1(x) == (x * 10) \div 10

\* ----------------------------------------------------------------- state
VARIABLES
    duration, interval, force_monitor,      \* the arguments
    pc,                                     \* position in the function
    now, start_time, elapsed,               \* the clock and what was read of it
    initial_bytes_sent, initial_bytes_recv,
    current_bytes_sent, current_bytes_recv,
    interface_stats,                        \* "unset", "none", "up", "down"
    sent_bw, recv_bw,
    time_values, bw_values, tcp_values, udp_values, icmp_values,
    alert,                                  \* what send_alert was called for
    \* history, read by the properties only
    prev_read, last_read,                   \* the last two counter reads
    emitted,                                \* the samples of completed ticks
    ticks, status_queries, sleeps,
    host_ok,                                \* every host query so far answered: present, up
    ended_at,                               \* where the session was cut short
    \* auto_select_interface
    host_table, available, sel_idx, selected, sel_pc

mvars == <<duration, interval, force_monitor, pc, now, start_time, elapsed,
           initial_bytes_sent, initial_bytes_recv, current_bytes_sent,
           current_bytes_recv, interface_stats, sent_bw, recv_bw,
           time_values, bw_values, tcp_values, udp_values, icmp_values, alert,
           prev_read, last_read, emitted, ticks, status_queries, sleeps, host_ok,
           ended_at>>

svars == <<host_table, available, sel_idx, selected, sel_pc>>

vars == <<mvars, svars>>

lists == <<time_values, bw_values, tcp_values, udp_values, icmp_values>>

\* ------------------------------------------------- monitor_network_traffic
\* A check that lets an interval of zero through.
IntervalInvalidStrict(i) == i < 0

\* Line 92: the interval that is refused.
IntervalInvalid(i) == i <= 0

\* A loop that runs one tick past the duration.
LoopConditionInclusive(e, d) == e <= d

\* Line 111: the loop's condition.
LoopCondition(e, d) == e < d

\* A status check that forgets force_monitor.
LinkStopsIgnoringForce(isup, force) == ~isup

\* Line 118: a link reported down ends the session unless monitoring is forced.
LinkStops(isup, force) == ~isup /\ ~force

\* Lines 137-138: the bandwidth of one direction, in Mbit/s.
Bandwidth(current_bytes, initial_bytes, intv) ==
    TrueDiv((current_bytes - initial_bytes) * BitsPerByte, intv * Kibi * Kibi)

\* A baseline that is never moved: every rate is measured from the start.
NextBaselineStale(current_bytes, initial_bytes) == initial_bytes

\* Lines 152-153: the baseline of the next iteration.
NextBaseline(current_bytes, initial_bytes) == current_bytes

\* A sleep of one second whatever the interval.
AfterSleepOneSecond(t, intv) == t + 1

\* Line 158: the clock when time.sleep(interval) returns.
AfterSleep(t, intv) == t + intv

\* Line 149: no field of a snicstats tuple equals 'icmp'.
IcmpCount == 0

TryPcs == {"loop", "if_stats", "append_time", "read_counters", "protocols", "sleep"}

\* send_alert(kind), then the return of line 164 with the lists as they are.
AlertAndReturn(kind) ==
    /\ alert' = kind
    /\ pc' = "done"
    /\ host_ok' = FALSE
    /\ ended_at' = pc

\* The locals of monitor_network_traffic before its first statement.
MonitorFresh ==
    /\ now = 0
    /\ start_time = 0
    /\ elapsed = 0
    /\ initial_bytes_sent = 0
    /\ initial_bytes_recv = 0
    /\ current_bytes_sent = 0
    /\ current_bytes_recv = 0
    /\ interface_stats = "unset"
    /\ sent_bw = Zero
    /\ recv_bw = Zero
    /\ time_values = <<>>
    /\ bw_values = <<>>
    /\ tcp_values = <<>>
    /\ udp_values = <<>>
    /\ icmp_values = <<>>
    /\ alert = "none"
    /\ prev_read = <<0, 0>>
    /\ last_read = <<0, 0>>
    /\ emitted = <<>>
    /\ ticks = 0
    /\ status_queries = 0
    /\ sleeps = 0
    /\ host_ok = TRUE
    /\ ended_at = "nowhere"

\* A call of monitor_network_traffic(interface, duration, interval, force_monitor).
Init ==
    /\ duration \in Durations
    /\ interval \in Intervals
    /\ force_monitor \in BOOLEAN
    /\ pc = "start"
    /\ MonitorFresh
    /\ host_table = <<>>
    /\ available = <<>>
    /\ sel_idx = 0
    /\ selected = "unset"
    /\ sel_pc = "idle"

\* Lines 90-94.
CheckInterval ==
    /\ pc = "start"
    /\ IF IntervalInvalid(interval)
       THEN /\ alert' = "InvalidConfig"
            /\ pc' = "done"
            /\ ended_at' = pc
       ELSE /\ pc' = "read_stats"
            /\ UNCHANGED <<alert, ended_at>>
    /\ UNCHANGED <<duration, interval, force_monitor, now, start_time, elapsed,
                   initial_bytes_sent, initial_bytes_recv, current_bytes_sent,
                   current_bytes_recv, interface_stats, sent_bw, recv_bw, lists,
                   prev_read, last_read, emitted, ticks, status_queries, sleeps,
                   host_ok, svars>>

\* Lines 96-108.  The query of line 96 is outside the try: what it raises
\* leaves the function.
ReadInitialStats ==
    /\ pc = "read_stats"
    /\ \/ /\ pc' = "raised"
          /\ host_ok' = FALSE
          /\ ended_at' = pc
          /\ UNCHANGED <<alert, initial_bytes_sent, initial_bytes_recv,
                         start_time, last_read>>
       \/ /\ AlertAndReturn("InterfaceNotFound")
          /\ UNCHANGED <<initial_bytes_sent, initial_bytes_recv, start_time,
                         last_read>>
       \/ \E s \in CounterValues, r \in RecvValues :
            /\ initial_bytes_sent' = s
            /\ initial_bytes_recv' = r
            /\ last_read' = <<s, r>>
            /\ start_time' = now
            /\ pc' = "loop"
            /\ UNCHANGED <<alert, host_ok, ended_at>>
    /\ UNCHANGED <<duration, interval, force_monitor, now, elapsed,
                   current_bytes_sent, current_bytes_recv, interface_stats,
                   sent_bw, recv_bw, lists, prev_read, emitted, ticks,
                   status_queries, sleeps, svars>>

\* Line 111.  The clock may have moved since it was last read.
LoopTest ==
    /\ pc = "loop"
    /\ \E lag \in 0 .. MaxLag :
         /\ now' = now + lag
         /\ elapsed' = now' - start_time
    /\ IF LoopCondition(elapsed', duration)
       THEN /\ pc' = "if_stats"
            /\ ticks' = ticks + 1
       ELSE /\ pc' = "done"
            /\ ticks' = ticks
    /\ UNCHANGED <<duration, interval, force_monitor, start_time,
                   initial_bytes_sent, initial_bytes_recv, current_bytes_sent,
                   current_bytes_recv, interface_stats, sent_bw, recv_bw, lists,
                   alert, prev_read, last_read, emitted, status_queries, sleeps,
                   host_ok, ended_at, svars>>

\* Lines 113-120.
CheckStatus ==
    /\ pc = "if_stats"
    /\ status_queries' = status_queries + 1
    /\ \/ /\ AlertAndReturn("Error")
          /\ UNCHANGED interface_stats
       \/ /\ interface_stats' = "none"
          /\ AlertAndReturn("InterfaceVanished")
       \/ \E isup \in BOOLEAN :
            /\ interface_stats' = IF isup THEN "up" ELSE "down"
            /\ IF LinkStops(isup, force_monitor)
               THEN AlertAndReturn("LinkDown")
               ELSE /\ pc' = "append_time"
                    /\ host_ok' = (host_ok /\ isup)
                    /\ UNCHANGED <<alert, ended_at>>
    /\ UNCHANGED <<duration, interval, force_monitor, now, start_time, elapsed,
                   initial_bytes_sent, initial_bytes_recv, current_bytes_sent,
                   current_bytes_recv, sent_bw, recv_bw, lists, prev_read,
                   last_read, emitted, ticks, sleeps, svars>>

\* Line 122.
AppendTime ==
    /\ pc = "append_time"
    /\ time_values' = Append(time_values, Round1(elapsed))
    /\ pc' = "read_counters"
    /\ UNCHANGED <<duration, interval, force_monitor, now, start_time, elapsed,
                   initial_bytes_sent, initial_bytes_recv, current_bytes_sent,
                   current_bytes_recv, interface_stats, sent_bw, recv_bw,
                   bw_values, tcp_values, udp_values, icmp_values, alert,
                   prev_read, last_read, emitted, ticks, status_queries, sleeps,
                   host_ok, ended_at, svars>>

\* Lines 124-140.
ReadCounters ==
    /\ pc = "read_counters"
    /\ \/ /\ AlertAndReturn("Error")
          /\ UNCHANGED <<current_bytes_sent, current_bytes_recv, sent_bw,
                         recv_bw, bw_values, prev_read, last_read>>
       \/ /\ AlertAndReturn("CountersUnavailable")
          /\ UNCHANGED <<current_bytes_sent, current_bytes_recv, sent_bw,
                         recv_bw, bw_values, prev_read, last_read>>
       \/ \E s \in CounterValues, r \in RecvValues :
            /\ current_bytes_sent' = s
            /\ current_bytes_recv' = r
            /\ prev_read' = last_read
            /\ last_read' = <<s, r>>
            /\ IF interval * Kibi * Kibi = 0
               THEN \* ZeroDivisionError at line 137, caught at line 161
                    /\ AlertAndReturn("Error")
                    /\ UNCHANGED <<sent_bw, recv_bw, bw_values>>
               ELSE /\ sent_bw' = Bandwidth(s, initial_bytes_sent, interval)
                    /\ recv_bw' = Bandwidth(r, initial_bytes_recv, interval)
                    /\ bw_values' = Append(bw_values, FloatAdd(sent_bw', recv_bw'))
                    /\ pc' = "protocols"
                    /\ UNCHANGED <<alert, host_ok, ended_at>>
    /\ UNCHANGED <<duration, interval, force_monitor, now, start_time, elapsed,
                   initial_bytes_sent, initial_bytes_recv, interface_stats,
                   time_values, tcp_values, udp_values, icmp_values, emitted,
                   ticks, status_queries, sleeps, svars>>

\* Lines 143-156.
CollectProtocols ==
    /\ pc = "protocols"
    /\ \/ /\ AlertAndReturn("Error")
          /\ UNCHANGED <<tcp_values, udp_values, icmp_values,
                         initial_bytes_sent, initial_bytes_recv, emitted>>
       \/ \E conns \in ConnCounts :
            /\ tcp_values' = Append(tcp_values, conns[1])
            /\ udp_values' = Append(udp_values, conns[2])
            /\ icmp_values' = Append(icmp_values, IcmpCount)
            /\ initial_bytes_sent' = NextBaseline(current_bytes_sent, initial_bytes_sent)
            /\ initial_bytes_recv' = NextBaseline(current_bytes_recv, initial_bytes_recv)
            /\ emitted' = Append(emitted,
                                 [t |-> time_values[Len(time_values)],
                                  bw |-> bw_values[Len(bw_values)],
                                  tcp |-> conns[1], udp |-> conns[2], icmp |-> IcmpCount])
            /\ pc' = "sleep"
            /\ UNCHANGED <<alert, host_ok, ended_at>>
    /\ UNCHANGED <<duration, interval, force_monitor, now, start_time, elapsed,
                   current_bytes_sent, current_bytes_recv, interface_stats,
                   sent_bw, recv_bw, time_values, bw_values, prev_read,
                   last_read, ticks, status_queries, sleeps, svars>>

\* Line 158.
Sleep ==
    /\ pc = "sleep"
    /\ now' = AfterSleep(now, interval)
    /\ sleeps' = sleeps + 1
    /\ pc' = "loop"
    /\ UNCHANGED <<duration, interval, force_monitor, start_time, elapsed,
                   initial_bytes_sent, initial_bytes_recv, current_bytes_sent,
                   current_bytes_recv, interface_stats, sent_bw, recv_bw, lists,
                   alert, prev_read, last_read, emitted, ticks, status_queries,
                   host_ok, ended_at, svars>>

\* Lines 159-160: Ctrl-C anywhere inside the try, the sleep included.
KeyboardInterrupt ==
    /\ pc \in TryPcs
    /\ AlertAndReturn("Interrupted")
    /\ UNCHANGED <<duration, interval, force_monitor, now, start_time, elapsed,
                   initial_bytes_sent, initial_bytes_recv, current_bytes_sent,
                   current_bytes_recv, interface_stats, sent_bw, recv_bw, lists,
                   prev_read, last_read, emitted, ticks, status_queries, sleeps,
                   svars>>

Next ==
    \/ CheckInterval
    \/ ReadInitialStats
    \/ LoopTest
    \/ CheckStatus
    \/ AppendTime
    \/ ReadCounters
    \/ CollectProtocols
    \/ Sleep
    \/ KeyboardInterrupt

Spec == Init /\ [][Next]_vars

\* The interpreter runs the function to its end: a step that can be taken is taken.
FairSpec == Spec /\ WF_vars(Next)


\* --------------------------------------------------- auto_select_interface
IfaceNames == {"lo", "eth0", "eth1", "eth2"}
\* Values a cumulative byte counter of a listed interface may show.
SelCounts == {0, 100}

NicEntries == [name : IfaceNames, bytes_sent : SelCounts, bytes_recv : SelCounts]

\* psutil.net_io_counters(pernic=True): a dict, so the names differ; its
\* order is the order the host reports the interfaces in.
HostTables ==
    UNION { { t \in [1 .. n -> NicEntries] :
                \A i, j \in 1 .. n : t[i].name = t[j].name => i = j } :
            n \in 0 .. MaxIfaces }

\* list(d.keys())
Keys(table) == [i \in 1 .. Len(table) |-> table[i].name]

\* list.remove(x) of a list that holds x: its first occurrence goes.
RECURSIVE ListRemove(_, _)
ListRemove(seq, x) ==
    IF seq = <<>> THEN <<>>
    ELSE IF Head(seq) = x THEN Tail(seq)
    ELSE <<Head(seq)>> \o ListRemove(Tail(seq), x)

Contains(seq, x) == \E i \in 1 .. Len(seq) : seq[i] = x

\* A listing that keeps the loopback interface.
GetAvailableInterfacesWithLoopback(table) == Keys(table)

\* Lines 28-31.
GetAvailableInterfaces(table) ==
    LET interfaces == Keys(table)
    IN  IF Contains(interfaces, "lo") THEN ListRemove(interfaces, "lo")
        ELSE interfaces

\* d.get(name): the entries under the name, none or one.
DictGet(table, name) == SelectSeq(table, LAMBDA e : e.name = name)

\* Line 40, on what d.get returned.
IsActive(stats) ==
    /\ stats # <<>>
    /\ (stats[1].bytes_sent > 0 \/ stats[1].bytes_recv > 0)

\* A call of auto_select_interface() on a host whose table holds still.
SelInit ==
    /\ duration = 0
    /\ interval = 1
    /\ force_monitor = FALSE
    /\ pc = "idle"
    /\ MonitorFresh
    /\ host_table \in HostTables
    /\ available = <<>>
    /\ sel_idx = 0
    /\ selected = "unset"
    /\ sel_pc = "start"

\* Line 37.
ListInterfaces ==
    /\ sel_pc = "start"
    /\ available' = GetAvailableInterfaces(host_table)
    /\ sel_idx' = 1
    /\ sel_pc' = "loop"
    /\ UNCHANGED <<host_table, selected, mvars>>

\* Lines 38-42: one iteration of the for loop.
CheckInterface ==
    /\ sel_pc = "loop"
    /\ sel_idx <= Len(available)
    /\ IF IsActive(DictGet(host_table, available[sel_idx]))
       THEN /\ selected' = available[sel_idx]
            /\ sel_pc' = "done"
            /\ sel_idx' = sel_idx
       ELSE /\ sel_idx' = sel_idx + 1
            /\ UNCHANGED <<selected, sel_pc>>
    /\ UNCHANGED <<host_table, available, mvars>>

\* Lines 43-44: the list is exhausted.
NoneActive ==
    /\ sel_pc = "loop"
    /\ sel_idx > Len(available)
    /\ selected' = "None"
    /\ sel_pc' = "done"
    /\ UNCHANGED <<host_table, available, sel_idx, mvars>>

SelNext ==
    \/ ListInterfaces
    \/ CheckInterface
    \/ NoneActive

SelSpec == SelInit /\ [][SelNext]_vars

\* ------------------------------------------------------------ properties
InBody == pc \in {"if_stats", "append_time", "read_counters", "protocols", "sleep"}

Ceil(d, i) == -((-d) \div i)

LastOf(seq) == seq[Len(seq)]

\* The five lists hold exactly the samples of the completed ticks, in order.
ReturnsEmitted ==
    /\ time_values = [i \in 1 .. Len(emitted) |-> emitted[i].t]
    /\ bw_values = [i \in 1 .. Len(emitted) |-> emitted[i].bw]
    /\ tcp_values = [i \in 1 .. Len(emitted) |-> emitted[i].tcp]
    /\ udp_values = [i \in 1 .. Len(emitted) |-> emitted[i].udp]
    /\ icmp_values = [i \in 1 .. Len(emitted) |-> emitted[i].icmp]

NoSamples ==
    /\ time_values = <<>>
    /\ bw_values = <<>>
    /\ tcp_values = <<>>
    /\ udp_values = <<>>
    /\ icmp_values = <<>>

\* (cur - prev) * 8 / (intervalSeconds * 1_048_576), as the specification writes it.
SpecRate(cur, prev) == TrueDiv((cur - prev) * 8, interval * 1048576)

\* C1: when a tick has computed its rates and neither counter went down since
\* the read before it (the baseline of the start for the first tick), the sent
\* rate is (current - previous) * 8 / (interval * 1048576), the received rate
\* likewise, and the value appended to bw_values is their sum; a sent counter
\* that grew by 131072 bytes at interval 1 gives exactly 1.
RateFromPrecedingRead ==
    (/\ pc = "protocols"
     /\ last_read[1] >= prev_read[1]
     /\ last_read[2] >= prev_read[2])
    => /\ sent_bw = SpecRate(last_read[1], prev_read[1])
       /\ recv_bw = SpecRate(last_read[2], prev_read[2])
       /\ sent_bw.num >= 0
       /\ recv_bw.num >= 0
       /\ LastOf(bw_values).den * (sent_bw.num * recv_bw.den + recv_bw.num * sent_bw.den)
            = LastOf(bw_values).num * (sent_bw.den * recv_bw.den)
       /\ (interval = 1 /\ last_read[1] - prev_read[1] = 131072)
            => sent_bw = [num |-> 1, den |-> 1]

\* The second sample of a session whose sent counter grows by 131072 bytes a
\* tick at interval 1.
SecondSampleOneMbit ==
    /\ pc = "protocols"
    /\ interval = 1
    /\ Len(bw_values) = 2
    /\ prev_read = <<131072, 0>>
    /\ last_read = <<262144, 131072>>
    /\ sent_bw = [num |-> 1, den |-> 1]
    /\ bw_values[2] = [num |-> 2, den |-> 1]

\* C2: no rate is ever negative: a counter read below the read before it gives
\* a rate of 0 for that direction.
RateClampedAtZero ==
    /\ \A i \in 1 .. Len(bw_values) : bw_values[i].num >= 0
    /\ pc = "protocols" =>
         /\ sent_bw.num >= 0
         /\ recv_bw.num >= 0
         /\ last_read[1] < prev_read[1] => sent_bw = Zero
         /\ last_read[2] < prev_read[2] => recv_bw = Zero

\* C3: an interval <= 0 ends the call at once with the InvalidConfig alert, and
\* a call ended by InvalidConfig or InterfaceNotFound returns five empty lists
\* without having begun a tick, queried the link status or slept.
ConfigErrorsBeforeSampling ==
    /\ (interval <= 0 /\ pc # "start") => (pc = "done" /\ alert = "InvalidConfig")
    /\ alert = "InvalidConfig" => interval <= 0
    /\ alert = "InterfaceNotFound" => ended_at = "read_stats"
    /\ alert \in {"InvalidConfig", "InterfaceNotFound"} =>
         /\ pc = "done"
         /\ NoSamples
         /\ emitted = <<>>
         /\ ticks = 0
         /\ status_queries = 0
         /\ sleeps = 0

\* A call refused for its interval, with forcing asked for and a long duration.
RefusedForInterval ==
    /\ pc = "done"
    /\ alert = "InvalidConfig"
    /\ interval = 0
    /\ force_monitor
    /\ duration = 2

\* C4: a session ends on LinkDown only when the link was reported down and
\* force_monitor is false, and it then returns exactly the samples of the
\* ticks completed before; a link reported down with force_monitor false
\* always ends it so, and with force_monitor true never does: the tick goes on
\* to sample.
LinkDownGovernedByForce ==
    /\ alert = "LinkDown" =>
         /\ pc = "done"
         /\ ~force_monitor
         /\ interface_stats = "down"
         /\ ended_at = "if_stats"
         /\ ReturnsEmitted
    /\ (interface_stats = "down" /\ ~force_monitor) => alert = "LinkDown"
    /\ (interface_stats = "down" /\ InBody) => force_monitor
    /\ (interface_stats = "down" /\ force_monitor /\ pc = "done")
         => alert \in {"none", "Error", "CountersUnavailable", "Interrupted"}

\* The link goes down after a sample was taken, without forcing.
LinkDownMidSession ==
    /\ alert = "LinkDown"
    /\ pc = "done"
    /\ Len(emitted) >= 1
    /\ Len(time_values) = Len(emitted)

\* C5: a session cut short by the interface missing from the status table, by
\* counters that are unavailable, by an exception of a host query or by Ctrl-C
\* during the sleep returns exactly the samples of the ticks completed before.
PartialResultsPreserved ==
    (/\ pc = "done"
     /\ \/ alert \in {"InterfaceVanished", "CountersUnavailable", "Error"}
        \/ alert = "Interrupted" /\ ended_at = "sleep")
    => ReturnsEmitted

\* C7: a tick runs only with elapsed < duration, every time recorded is below
\* the duration, and a call that found its interface, was not disturbed and
\* has a duration of 0 returns five empty lists and raises no alert.
TickOnlyBelowDuration ==
    /\ InBody => elapsed < duration
    /\ \A i \in 1 .. Len(time_values) : time_values[i] < duration
    /\ (pc = "done" /\ host_ok /\ interval > 0 /\ duration = 0)
         => (NoSamples /\ alert = "none" /\ ticks = 0)

\* A call with duration 0 that read its baseline and came back.
ZeroDurationReturned ==
    /\ pc = "done"
    /\ host_ok
    /\ interval > 0
    /\ duration = 0
    /\ initial_bytes_sent > 0
    /\ force_monitor

\* C8 as stated: a call with 0 < duration < interval on a host that answers
\* every query (interface up, counters there) returns no sample and no alert.
ShortDurationReturnsNothing ==
    (pc = "done" /\ host_ok /\ interval > 0 /\ 0 < duration /\ duration < interval)
    => (NoSamples /\ alert = "none")

\* C8 amended: such a call raises no alert and returns at most one sample: the
\* one of the first tick, taken before any sleep, whenever the first reading of
\* the clock is below the duration, and none only when that first reading has
\* already reached the duration.
ShortDurationAtMostOneSample ==
    (pc = "done" /\ host_ok /\ interval > 0 /\ 0 < duration /\ duration < interval)
    => /\ alert = "none"
       /\ ReturnsEmitted
       /\ Len(emitted) = ticks
       /\ ticks <= 1
       /\ ticks = 0 => (sleeps = 0 /\ elapsed >= duration)
       /\ ticks = 1 => (sleeps = 1 /\ time_values[1] < duration)

\* A call with duration 1 and interval 2 that came back with its one sample.
ShortDurationOneSample ==
    /\ pc = "done"
    /\ host_ok
    /\ duration = 1
    /\ interval = 2
    /\ Len(bw_values) = 1
    /\ time_values = <<0>>

\* The most ticks that fit: ceil(duration / interval), and none when the
\* duration is negative (a count is never below 0).
MaxSamples == IF Ceil(duration, interval) > 0 THEN Ceil(duration, interval) ELSE 0

\* C9: with a clock that moves on by at least the interval across each sleep,
\* every call comes to its end, and a call with interval > 0 never holds more
\* than ceil(duration / interval) samples, whatever the link status,
\* force_monitor and the counters are.
SessionFinite ==
    /\ <>(pc \in {"done", "raised"})
    /\ [](interval > 0 =>
            /\ Len(bw_values) <= MaxSamples
            /\ Len(time_values) <= MaxSamples
            /\ ticks <= MaxSamples)

\* A forced call on a link that is down ran its whole duration and holds as
\* many samples as the bound allows.
FullSessionReturned ==
    /\ pc = "done"
    /\ alert = "none"
    /\ interval = 1
    /\ duration = 2
    /\ Len(bw_values) = Ceil(duration, interval)
    /\ force_monitor
    /\ interface_stats = "down"

\* C10: the five lists returned have the same length.
SeriesSameLength ==
    pc = "done" =>
        /\ Len(bw_values) = Len(time_values)
        /\ Len(tcp_values) = Len(time_values)
        /\ Len(udp_values) = Len(time_values)
        /\ Len(icmp_values) = Len(time_values)

\* C6: auto_select_interface returns the first entry of the host's table, in
\* its order, that is not 'lo' and has a nonzero bytes-sent or bytes-received
\* count, and None exactly when the table has no such entry.
Qualifying ==
    {i \in 1 .. Len(host_table) :
        /\ host_table[i].name # "lo"
        /\ (host_table[i].bytes_sent # 0 \/ host_table[i].bytes_recv # 0)}

FirstActiveSelected ==
    sel_pc = "done" =>
        /\ selected # "lo"
        /\ IF Qualifying = {}
           THEN selected = "None"
           ELSE \E i \in Qualifying :
                  /\ \A j \in Qualifying : i <= j
                  /\ selected = host_table[i].name

\* The host lists a busy loopback first, then an idle interface, then two
\* busy ones: the first of the two is returned.
SecondOfThreeSelected ==
    /\ sel_pc = "done"
    /\ Len(host_table) >= 3
    /\ host_table[1] = [name |-> "lo", bytes_sent |-> 100, bytes_recv |-> 100]
    /\ host_table[2] = [name |-> "eth0", bytes_sent |-> 0, bytes_recv |-> 0]
    /\ host_table[3] = [name |-> "eth1", bytes_sent |-> 0, bytes_recv |-> 100]
    /\ selected = "eth1"

====
